---- MODULE Spec2Model ----
(***************************************************************************)
(* Best-subset regression search of boston2.go: the combination generator, *)
(* the per-size search goroutines, the joiner goroutine and main's receive *)
(* loop over the unbuffered results channel.                               *)
(***************************************************************************)
EXTENDS Integers, Sequences, FiniteSets, TLC

\* ------------------------------------------------------------------ bounds
\* Largest number of explanatory columns of a dataset.
MaxExplanatory == 5
\* Largest number of data rows of a dataset.
MaxRows == 5
\* Largest n and k handed to generateCombinations on its own.
MaxN == 6
MaxK == 7
\* Largest n of two generateCombinations calls running side by side.
MaxCallN == 3

\* ------------------------------------------------------- program constants
\* for size := 4; size <= numExplanatory; size++
minSize == 4

VARIABLES
    input,              \* what reading housing1.csv meets (lines 20-56)
    numExplanatory,     \* len(data[0]) - 1
    numRows,            \* len(data) = len(y)
    regression,         \* what the regression library computes for a training set
    mainPc,             \* position of main
    size,               \* loop variable of main's spawn loop
    wpc,                \* position of the worker goroutine of each size
    combinations,       \* each worker's generateCombinations result
    next,               \* each worker's position in its range over combinations
    localBestAIC,       \* each worker's running minimum
    localBestFeatures,
    localBestMSE,
    joinerPc,           \* position of the goroutine that waits on done
    joinerI,            \* its loop variable i
    closed,             \* whether the results channel is closed
    output,             \* the result blocks main has printed, in order
    received,           \* the sizes whose worker's send main has received, in order
    crashed,            \* the process died of an unrecovered panic
    gn, gk, gpc, gout,  \* a stand-alone call generateCombinations(gn, gk)
    hn,                 \* n of the calls that run statement by statement
    hk,                 \* k of each of those calls
    hstack,             \* each call's stack of generateCombinationsHelper frames
    hheap,              \* the backing arrays each call has allocated
    hout                \* each call's *combinations: a sequence of slices

vars == <<input, numExplanatory, numRows, regression, mainPc, size, wpc, combinations,
          next, localBestAIC, localBestFeatures, localBestMSE,
          joinerPc, joinerI, closed, output, received, crashed,
          gn, gk, gpc, gout, hn, hk, hstack, hheap, hout>>

progVars == <<input, numExplanatory, numRows, regression, mainPc, size, wpc,
              combinations, next, localBestAIC, localBestFeatures, localBestMSE,
              joinerPc, joinerI, closed, output, received, crashed>>

soloVars == <<gn, gk, gpc, gout>>

callVars == <<hn, hk, hstack, hheap, hout>>

genVars == <<soloVars, callVars>>

\* ------------------------------------------------------------ float64 values
\* A float64 is NaN, -Inf, +Inf or a finite number; finite numbers are
\* integers here.  A non-negative quantity whose logarithm is taken is kept
\* as 0, e^v, +Inf or NaN.
NaN == [k |-> "nan", v |-> 0]
PosInf == [k |-> "pinf", v |-> 0]
NegInf == [k |-> "ninf", v |-> 0]
Fin(x) == [k |-> "fin", v |-> x]
Zero == [k |-> "zero", v |-> 0]
Exp(x) == [k |-> "exp", v |-> x]

\* a < b on float64: false whenever either side is NaN.
FLessEq(a, b) ==
    /\ a.k # "nan" /\ b.k # "nan"
    /\ \/ a.k = "ninf"
       \/ b.k = "pinf"
       \/ a.k = "fin" /\ b.k = "fin" /\ a.v <= b.v

FLess(a, b) ==
    /\ a.k # "nan" /\ b.k # "nan"
    /\ \/ a.k = "ninf" /\ b.k # "ninf"
       \/ a.k # "pinf" /\ b.k = "pinf"
       \/ a.k = "fin" /\ b.k = "fin" /\ a.v < b.v

\* math.Log: Log(0) = -Inf, Log(+Inf) = +Inf, Log(NaN) = NaN.
LogUndefinedAtZero(m) ==
    CASE m.k = "exp" -> Fin(m.v)
      [] m.k = "pinf" -> PosInf
      [] OTHER -> NaN
Log(m) ==
    CASE m.k = "zero" -> NegInf
      [] m.k = "exp" -> Fin(m.v)
      [] m.k = "pinf" -> PosInf
      [] OTHER -> NaN

\* float64(n) * x for an integer n >= 0.
FMulInt(n, x) ==
    CASE x.k = "fin" -> Fin(n * x.v)
      [] x.k = "nan" -> NaN
      [] OTHER -> IF n = 0 THEN NaN ELSE x

\* x + float64(c) for an integer c.
FAddInt(x, c) == IF x.k = "fin" THEN Fin(x.v + c) ELSE x

\* --------------------------------------------------- combination generator
RECURSIVE generateCombinationsHelper(_, _, _, _)
RECURSIVE HelperLoop(_, _, _, _, _)

\* The index the recursive call starts from (line 178: i+1).
HelperNextFromIndex(i, index) == index + 1
HelperNext(i, index) == i + 1

\* i < n (line 176)
HelperLoopCondInclusive(i, n) == i <= n
HelperLoopCond(i, n) == i < n

\* for i := index; i < n; i++ { append i; recurse(k-1, i+1); truncate }
\* Both operators return the combinations the call appends to *combinations,
\* in the order it appends them.  Indices are 0-based as in the source; a
\* combination is the sequence of its indices.
HelperLoop(n, k, index, i, combination) ==
    IF ~HelperLoopCond(i, n) THEN <<>>
    ELSE generateCombinationsHelper(n, k - 1, HelperNext(i, index),
                                    Append(combination, i))
         \o HelperLoop(n, k, index, i + 1, combination)

generateCombinationsHelper(n, k, index, combination) ==
    IF k = 0 THEN <<combination>>
    ELSE HelperLoop(n, k, index, index, combination)

generateCombinations(n, k) == generateCombinationsHelper(n, k, 0, <<>>)

\* ------------------------------------------------------------------ fitModel
\* The regression library (github.com/sajari/regression) is no part of the
\* repository.  What Train/Run/Predict compute for a training set is a fixed
\* function of the selected features: whether Run() returns an error, and
\* the squared prediction error (y[i]-yPred)^2 of each predicted point.  The
\* model lets that function tell feature subsets apart by the parity of
\* their index sum.
RECURSIVE SumSeq(_)
SumSeq(s) == IF s = <<>> THEN 0 ELSE Head(s) + SumSeq(Tail(s))

FitClass(features) == SumSeq(features) % 2

SqErrs == {Zero, Exp(0), Exp(1), PosInf, NaN}
Outcomes == [err : BOOLEAN, sq : SqErrs]
Regressions == [{0, 1} -> Outcomes]

\* f after `for i, row := range xs { f += math.Pow(y[i]-yPred, 2) }`:
\* the sum of `terms` squared errors, each equal to sq.
SumSq(terms, sq) == [terms |-> terms, sq |-> sq]

\* f / float64(d)
FDivInt(f, d) ==
    IF f.sq.k # "exp" \/ f.terms = d THEN f.sq
    ELSE [k |-> "scaled", v |-> f.sq.v, num |-> f.terms, den |-> d]

\* xs gets one entry per selected feature (lines 131-141); both range loops
\* over xs index y with the position in xs (lines 144-146, 152-155), which
\* is out of range as soon as xs is longer than y.
XsLen(features) == Len(features)

\* The values of the dataset are kept by name: data[r][c] and y[i], with the
\* 0-based indices of the source.
Cell(r, c) == <<"data", r, c>>
YAt(i) == <<"y", i>>

\* xs of lines 131-141: for each selected feature, in order, the column x of
\* that feature: data[r][idx] of every row r.
Xs(features, rows) ==
    [j \in 1 .. Len(features) |->
        [r \in 1 .. rows |-> Cell(r - 1, features[j])]]

\* The points r.Train is called with (lines 144-146), in order: the i-th
\* entry of xs with y[i].
Trained(features, rows) ==
    [i \in 1 .. Len(Xs(features, rows)) |->
        [observed |-> YAt(i - 1), variables |-> Xs(features, rows)[i]]]

FitPanics(features, rows) == XsLen(features) > rows

\* mse, aic of lines 156-161, with the error of r.Run() that line 149 drops.
fitModel(features, reg) ==
    LET o == reg[FitClass(features)]
        f == SumSq(XsLen(features), o.sq)
        mse == FDivInt(f, XsLen(features))
        aic == FAddInt(FMulInt(XsLen(features), Log(mse)), 2 * Len(features))
    IN [mse |-> mse, aic |-> aic, err |-> o.err,
        terms |-> f.terms,                  \* squared errors summed (152-155)
        divisor |-> XsLen(features),        \* float64(len(xs)) of line 156
        multiplier |-> XsLen(features),     \* float64(len(xs)) of line 159
        penalty |-> 2 * Len(features)]      \* 2.0*float64(len(features))

\* localBestAIC := math.Inf(1) (line 75)
InitialBestAICZero == Fin(0)
InitialBestAIC == PosInf

\* if aic < localBestAIC (line 83)
ImprovesOrTies(aic, best) == FLessEq(aic, best)
Improves(aic, best) == FLess(aic, best)

\* size <= numExplanatory (line 71)
SpawnLoopCondOneMore(sz, n) == sz <= n + 1
SpawnLoopCond(sz, n) == sz <= n

\* i <= numExplanatory (line 97)
JoinerLoopCondOneLess(i, n) == i < n
JoinerLoopCond(i, n) == i <= n

\* --------------------------------------------------------------- the program
Sizes == minSize .. MaxExplanatory

\* result{localBestFeatures, localBestAIC, localBestMSE}
ResultOfSharedBest(s) ==
    [Features |-> localBestFeatures[minSize], AIC |-> localBestAIC[minSize],
     MSE |-> localBestMSE[minSize]]
Result(s) == [Features |-> localBestFeatures[s], AIC |-> localBestAIC[s],
              MSE |-> localBestMSE[s]]

\* The process ends when main returns, when log.Fatalf exits and when a
\* panic goes unrecovered.
Running == mainPc \notin {"exited", "fatal"} /\ ~crashed

ProgInit ==
    /\ input = "ok"
    /\ numExplanatory \in 0 .. MaxExplanatory
    /\ numRows \in 1 .. MaxRows
    /\ regression \in Regressions
    /\ mainPc = "spawn"
    /\ size = minSize
    /\ wpc = [s \in Sizes |-> "unborn"]
    /\ combinations = [s \in Sizes |-> <<>>]
    /\ next = [s \in Sizes |-> 1]
    /\ localBestAIC = [s \in Sizes |-> PosInf]
    /\ localBestFeatures = [s \in Sizes |-> <<>>]
    /\ localBestMSE = [s \in Sizes |-> Zero]
    /\ joinerPc = "unborn"
    /\ joinerI = minSize
    /\ closed = FALSE
    /\ output = <<>>
    /\ received = <<>>
    /\ crashed = FALSE

\* The generateCombinations calls that run statement by statement.
Calls == {1, 2}

CallsIdle ==
    /\ hn = 0
    /\ hk = [c \in Calls |-> 0]
    /\ hstack = [c \in Calls |-> <<>>]
    /\ hheap = [c \in Calls |-> <<>>]
    /\ hout = [c \in Calls |-> <<>>]

SoloIdle == gn = 0 /\ gk = 0 /\ gpc = "off" /\ gout = <<>>

GenIdle == SoloIdle /\ CallsIdle

Init == ProgInit /\ GenIdle

\* main, lines 71-93: one `go func(size)` per iteration.
SpawnWorker ==
    /\ Running /\ mainPc = "spawn" /\ SpawnLoopCond(size, numExplanatory)
    /\ wpc' = [wpc EXCEPT ![size] = "start"]
    /\ size' = size + 1
    /\ UNCHANGED <<input, numExplanatory, numRows, regression, mainPc, combinations,
                   next, localBestAIC, localBestFeatures, localBestMSE, joinerPc, joinerI, closed, output, received,
                   crashed>>

\* main, lines 96-104: the spawn loop is over; start the joiner and enter
\* the range over results.
SpawnJoiner ==
    /\ Running /\ mainPc = "spawn" /\ ~SpawnLoopCond(size, numExplanatory)
    /\ joinerPc' = "wait"
    /\ mainPc' = "range"
    /\ UNCHANGED <<input, numExplanatory, numRows, regression, size, wpc, combinations,
                   next, localBestAIC, localBestFeatures, localBestMSE, joinerI, closed, output, received, crashed>>

\* worker, lines 75-79: the locals and the combinations of its size.
WorkerStart(s) ==
    /\ Running /\ wpc[s] = "start"
    /\ combinations' = [combinations EXCEPT
                            ![s] = generateCombinations(numExplanatory, s)]
    /\ next' = [next EXCEPT ![s] = 1]
    /\ localBestAIC' = [localBestAIC EXCEPT ![s] = InitialBestAIC]
    /\ localBestFeatures' = [localBestFeatures EXCEPT ![s] = <<>>]
    /\ localBestMSE' = [localBestMSE EXCEPT ![s] = Zero]
    /\ wpc' = [wpc EXCEPT ![s] =
                 IF generateCombinations(numExplanatory, s) = <<>>
                 THEN "send" ELSE "loop"]
    /\ UNCHANGED <<input, numExplanatory, numRows, regression, mainPc, size, joinerPc,
                   joinerI, closed, output, received, crashed>>

\* worker, lines 80-88: one iteration of the range over combinations.  An
\* index out of range inside fitModel panics: the goroutine unwinds into its
\* deferred send on done.
WorkerFit(s) ==
    /\ Running /\ wpc[s] = "loop" /\ next[s] <= Len(combinations[s])
    /\ LET features == combinations[s][next[s]]
           fit == fitModel(features, regression)
       IN IF FitPanics(features, numRows)
          THEN /\ wpc' = [wpc EXCEPT ![s] = "panicking"]
               /\ UNCHANGED <<next, localBestAIC, localBestFeatures,
                              localBestMSE>>
          ELSE /\ IF Improves(fit.aic, localBestAIC[s])
                  THEN /\ localBestAIC' = [localBestAIC EXCEPT ![s] = fit.aic]
                       /\ localBestFeatures' =
                              [localBestFeatures EXCEPT ![s] = features]
                       /\ localBestMSE' = [localBestMSE EXCEPT ![s] = fit.mse]
                  ELSE UNCHANGED <<localBestAIC, localBestFeatures,
                                   localBestMSE>>
               /\ next' = [next EXCEPT ![s] = next[s] + 1]
               /\ wpc' = [wpc EXCEPT ![s] =
                            IF next[s] = Len(combinations[s])
                            THEN "send" ELSE "loop"]
    /\ UNCHANGED <<input, numExplanatory, numRows, regression, mainPc, size,
                   combinations, joinerPc, joinerI, closed, output, received,
                   crashed>>

\* The unbuffered results channel: the worker's send (line 91) and main's
\* receive (line 104) happen together; main prints the block (lines 105-107).
DeliverResult(s) ==
    /\ Running /\ wpc[s] = "send" /\ mainPc = "range" /\ ~closed
    /\ output' = Append(output, Result(s))
    /\ received' = Append(received, s)
    /\ wpc' = [wpc EXCEPT ![s] = "defer"]
    /\ UNCHANGED <<input, numExplanatory, numRows, regression, mainPc, size,
                   combinations, next, localBestAIC, localBestFeatures,
                   localBestMSE, joinerPc, joinerI, closed,
                   crashed>>

\* The unbuffered done channel: the worker's deferred send (line 73), on
\* return or while panicking, and the joiner's receive (line 98).
SignalDone(s) ==
    /\ Running /\ wpc[s] \in {"defer", "panicking"}
    /\ joinerPc = "wait" /\ JoinerLoopCond(joinerI, numExplanatory)
    /\ joinerI' = joinerI + 1
    /\ wpc' = [wpc EXCEPT ![s] =
                 IF wpc[s] = "defer" THEN "returned" ELSE "dying"]
    /\ UNCHANGED <<input, numExplanatory, numRows, regression, mainPc, size,
                   combinations, next, localBestAIC, localBestFeatures,
                   localBestMSE, joinerPc, closed, output,
                   received, crashed>>

\* A panic no deferred call recovers ends the process (exit status 2).
Crash(s) ==
    /\ Running /\ wpc[s] = "dying"
    /\ crashed' = TRUE
    /\ UNCHANGED <<input, numExplanatory, numRows, regression, mainPc, size, wpc,
                   combinations, next, localBestAIC, localBestFeatures,
                   localBestMSE, joinerPc, joinerI, closed,
                   output, received>>

\* joiner, line 100: its loop is over.
CloseResults ==
    /\ Running /\ joinerPc = "wait" /\ ~JoinerLoopCond(joinerI, numExplanatory)
    /\ closed' = TRUE
    /\ joinerPc' = "returned"
    /\ UNCHANGED <<input, numExplanatory, numRows, regression, mainPc, size, wpc,
                   combinations, next, localBestAIC, localBestFeatures,
                   localBestMSE, joinerI, output, received,
                   crashed>>

\* main, lines 104-112: the range ends on the closed channel and main
\* returns, which ends the process.
MainExit ==
    /\ Running /\ mainPc = "range" /\ closed
    /\ mainPc' = "exited"
    /\ UNCHANGED <<input, numExplanatory, numRows, regression, size, wpc,
                   combinations, next, localBestAIC, localBestFeatures,
                   localBestMSE, joinerPc, joinerI, closed,
                   output, received, crashed>>

Worker(s) ==
    \/ WorkerStart(s)
    \/ WorkerFit(s)
    \/ DeliverResult(s)
    \/ SignalDone(s)
    \/ Crash(s)

Next ==
    \/ (SpawnWorker /\ UNCHANGED genVars)
    \/ (SpawnJoiner /\ UNCHANGED genVars)
    \/ (\E s \in Sizes : WorkerStart(s) /\ UNCHANGED genVars)
    \/ (\E s \in Sizes : WorkerFit(s) /\ UNCHANGED genVars)
    \/ (\E s \in Sizes : DeliverResult(s) /\ UNCHANGED genVars)
    \/ (\E s \in Sizes : SignalDone(s) /\ UNCHANGED genVars)
    \/ (\E s \in Sizes : Crash(s) /\ UNCHANGED genVars)
    \/ (CloseResults /\ UNCHANGED genVars)
    \/ (MainExit /\ UNCHANGED genVars)

Spec == Init /\ [][Next]_vars

\* The Go scheduler runs every goroutine that can take a step: main, each
\* worker and the joiner are each weakly fair.
FairSpec ==
    /\ Init /\ [][Next]_vars
    /\ WF_vars((SpawnWorker \/ SpawnJoiner \/ MainExit) /\ UNCHANGED genVars)
    /\ \A s \in Sizes : WF_vars(Worker(s) /\ UNCHANGED genVars)
    /\ WF_vars(CloseResults /\ UNCHANGED genVars)

\* ------------------------------------------------------ reading the input
\* What main can meet while it reads the CSV file: os.Open fails (line 22),
\* the header cannot be read (line 31), ReadAll fails (line 36), there is no
\* record (line 41), a field is no float (line 51), or none of these.
Inputs == {"ok", "noFile", "noHeader", "badCSV", "noRecords", "badFloat"}

\* log.Fatalf logs and calls os.Exit(1).
AfterFatalfGoesOn == "spawn"
AfterFatalf == "fatal"

\* The state before main reads the file.  A file main cannot load leaves no
\* dataset behind: only the number of columns of its header is kept.
InputInit ==
    /\ input \in Inputs
    /\ numExplanatory \in 0 .. MaxExplanatory
    /\ IF input = "ok"
       THEN /\ numRows \in 1 .. MaxRows
            /\ regression \in Regressions
       ELSE /\ numRows = 0
            /\ regression = [c \in {0, 1} |-> [err |-> FALSE, sq |-> Zero]]
    /\ mainPc = "load"
    /\ size = minSize
    /\ wpc = [s \in Sizes |-> "unborn"]
    /\ combinations = [s \in Sizes |-> <<>>]
    /\ next = [s \in Sizes |-> 1]
    /\ localBestAIC = [s \in Sizes |-> PosInf]
    /\ localBestFeatures = [s \in Sizes |-> <<>>]
    /\ localBestMSE = [s \in Sizes |-> Zero]
    /\ joinerPc = "unborn"
    /\ joinerI = minSize
    /\ closed = FALSE
    /\ output = <<>>
    /\ received = <<>>
    /\ crashed = FALSE
    /\ GenIdle

\* main, lines 20-68: open, read, parse; every failure ends in log.Fatalf.
LoadData ==
    /\ mainPc = "load"
    /\ mainPc' = IF input = "ok" THEN "spawn" ELSE AfterFatalf
    /\ UNCHANGED <<input, numExplanatory, numRows, regression, size, wpc,
                   combinations, next, localBestAIC, localBestFeatures,
                   localBestMSE, joinerPc, joinerI, closed, output, received,
                   crashed>>

InputNext ==
    \/ (LoadData /\ UNCHANGED genVars)
    \/ Next

SpecInput == InputInit /\ [][InputNext]_vars

\* ------------------------------------------- generateCombinations on its own
\* The program at rest while a single generateCombinations(gn, gk) call runs.
ProgIdle ==
    /\ input = "ok"
    /\ numExplanatory = 0
    /\ numRows = 1
    /\ regression = [c \in {0, 1} |-> [err |-> FALSE, sq |-> Zero]]
    /\ mainPc = "exited"
    /\ size = minSize
    /\ wpc = [s \in Sizes |-> "unborn"]
    /\ combinations = [s \in Sizes |-> <<>>]
    /\ next = [s \in Sizes |-> 1]
    /\ localBestAIC = [s \in Sizes |-> PosInf]
    /\ localBestFeatures = [s \in Sizes |-> <<>>]
    /\ localBestMSE = [s \in Sizes |-> Zero]
    /\ joinerPc = "unborn"
    /\ joinerI = minSize
    /\ closed = FALSE
    /\ output = <<>>
    /\ received = <<>>
    /\ crashed = FALSE

GenInit ==
    /\ ProgIdle
    /\ CallsIdle
    /\ gn \in -1 .. MaxN
    /\ gk \in -1 .. MaxK
    /\ gpc = "call"
    /\ gout = <<>>

\* combinations := generateCombinations(n, k)
Generate ==
    /\ gpc = "call"
    /\ gout' = generateCombinations(gn, gk)
    /\ gpc' = "done"
    /\ UNCHANGED <<gn, gk>>
    /\ UNCHANGED progVars
    /\ UNCHANGED callVars

GenNext == Generate

SpecGen == GenInit /\ [][GenNext]_vars

\* ------------------------------- generateCombinations, statement by statement
\* A slice is a header: its backing array (0: none), its length and its
\* capacity.  A call's backing arrays are named by the order in which the
\* call allocated them; an array is a sequence as long as its capacity.
EmptySlice == [arr |-> 0, len |-> 0, cap |-> 0]

\* The elements of slice sl.
Contents(heap, sl) ==
    IF sl.len = 0 THEN <<>> ELSE SubSeq(heap[sl.arr], 1, sl.len)

\* The capacity append grows a full slice of capacity cap to.
GrowCap(cap) == IF cap = 0 THEN 1 ELSE 2 * cap

\* append(sl, v): in place when the capacity allows, else into a new and
\* larger backing array.  Returns the heap and the slice after it.
AppendOne(heap, sl, v) ==
    IF sl.len < sl.cap
    THEN [heap |-> [heap EXCEPT ![sl.arr][sl.len + 1] = v],
          sl |-> [sl EXCEPT !.len = sl.len + 1]]
    ELSE [heap |-> Append(heap,
                      [p \in 1 .. GrowCap(sl.cap) |->
                          IF p <= sl.len THEN heap[sl.arr][p]
                          ELSE IF p = sl.len + 1 THEN v ELSE 0]),
          sl |-> [arr |-> Len(heap) + 1, len |-> sl.len + 1,
                  cap |-> GrowCap(sl.cap)]]

\* append([]int{}, combination...) of line 172: a copy in a backing array
\* of its own; the empty literal itself when there is nothing to copy.
SnapshotAlias(heap, sl) == [heap |-> heap, sl |-> sl]
Snapshot(heap, sl) ==
    IF sl.len = 0 THEN [heap |-> heap, sl |-> EmptySlice]
    ELSE [heap |-> Append(heap, Contents(heap, sl)),
          sl |-> [arr |-> Len(heap) + 1, len |-> sl.len, cap |-> sl.len]]

\* The frame of generateCombinationsHelper(n, k, index, combination, ..).
Frame(k, index, combination) ==
    [k |-> k, index |-> index, i |-> index, comb |-> combination,
     pc |-> "entry"]

Top(c) == hstack[c][Len(hstack[c])]
Pop(c) == SubSeq(hstack[c], 1, Len(hstack[c]) - 1)
SetTop(c, f) == [hstack[c] EXCEPT ![Len(hstack[c])] = f]

CallsInit ==
    /\ ProgIdle
    /\ SoloIdle
    /\ hn \in 0 .. MaxCallN
    /\ hk \in [Calls -> 0 .. MaxCallN]
    /\ hstack = [c \in Calls |-> <<Frame(hk[c], 0, EmptySlice)>>]
    /\ hheap = [c \in Calls |-> <<>>]
    /\ hout = [c \in Calls |-> <<>>]

\* lines 171-174: with k == 0 append a copy of combination to the output
\* and return; else start the loop at i := index.
HelperEnter(c) ==
    /\ hstack[c] # <<>> /\ Top(c).pc = "entry"
    /\ IF Top(c).k = 0
       THEN LET snap == Snapshot(hheap[c], Top(c).comb)
            IN /\ hheap' = [hheap EXCEPT ![c] = snap.heap]
               /\ hout' = [hout EXCEPT ![c] = Append(hout[c], snap.sl)]
               /\ hstack' = [hstack EXCEPT ![c] = Pop(c)]
       ELSE /\ hstack' = [hstack EXCEPT ![c] =
                             SetTop(c, [Top(c) EXCEPT !.pc = "loop"])]
            /\ UNCHANGED <<hheap, hout>>
    /\ UNCHANGED <<hn, hk>>
    /\ UNCHANGED progVars
    /\ UNCHANGED soloVars

\* lines 176-178: while i < n, append i to combination and call the helper
\* with k-1, i+1 and the slice; after the loop, return.
HelperIterate(c) ==
    /\ hstack[c] # <<>> /\ Top(c).pc = "loop"
    /\ IF HelperLoopCond(Top(c).i, hn)
       THEN LET app == AppendOne(hheap[c], Top(c).comb, Top(c).i)
            IN /\ hheap' = [hheap EXCEPT ![c] = app.heap]
               /\ hstack' = [hstack EXCEPT ![c] =
                     Append(SetTop(c, [Top(c) EXCEPT !.comb = app.sl,
                                                      !.pc = "back"]),
                            Frame(Top(c).k - 1,
                                  HelperNext(Top(c).i, Top(c).index),
                                  app.sl))]
       ELSE /\ hstack' = [hstack EXCEPT ![c] = Pop(c)]
            /\ UNCHANGED hheap
    /\ UNCHANGED <<hn, hk, hout>>
    /\ UNCHANGED progVars
    /\ UNCHANGED soloVars

\* line 179 and the i++ of line 176, once the called helper has returned.
HelperResume(c) ==
    /\ hstack[c] # <<>> /\ Top(c).pc = "back"
    /\ hstack' = [hstack EXCEPT ![c] =
          SetTop(c, [Top(c) EXCEPT !.comb.len = Top(c).comb.len - 1,
                                   !.i = Top(c).i + 1,
                                   !.pc = "loop"])]
    /\ UNCHANGED <<hn, hk, hheap, hout>>
    /\ UNCHANGED progVars
    /\ UNCHANGED soloVars

CallsNext ==
    \/ \E c \in Calls : HelperEnter(c)
    \/ \E c \in Calls : HelperIterate(c)
    \/ \E c \in Calls : HelperResume(c)

SpecCalls == CallsInit /\ [][CallsNext]_vars

\* ============================================================== properties
RECURSIVE Binomial(_, _)
Binomial(n, k) ==
    IF k = 0 THEN 1
    ELSE IF k > n THEN 0
    ELSE Binomial(n - 1, k - 1) + Binomial(n - 1, k)

StrictlyIncreasing(c) == \A p \in 1 .. Len(c) - 1 : c[p] < c[p + 1]

\* a comes before b in lexicographic order (a and b of the same length)
LexLess(a, b) ==
    \E p \in 1 .. Len(a) :
        /\ p <= Len(b)
        /\ a[p] < b[p]
        /\ \A q \in 1 .. p - 1 : a[q] = b[q]

\* C1: for n >= 1 and 1 <= k <= n, generateCombinations(n, k) returns exactly
\* C(n,k) subsets, each of length k, strictly increasing, with its elements
\* in [0, n), no subset twice, and the sequence in lexicographic order.
C1_AllSubsetsInOrder ==
    (gpc = "done" /\ gn >= 1 /\ gk >= 1 /\ gk <= gn) =>
        /\ Len(gout) = Binomial(gn, gk)
        /\ \A i \in 1 .. Len(gout) :
              /\ Len(gout[i]) = gk
              /\ StrictlyIncreasing(gout[i])
              /\ \A p \in 1 .. gk : gout[i][p] \in 0 .. gn - 1
        /\ \A i, j \in 1 .. Len(gout) : i # j => gout[i] # gout[j]
        /\ \A i \in 1 .. Len(gout) - 1 : LexLess(gout[i], gout[i + 1])

C1_Witness ==
    /\ gpc = "done" /\ gn = 5 /\ gk = 3
    /\ Len(gout) = 10
    /\ gout[1] = <<0, 1, 2>> /\ gout[10] = <<2, 3, 4>>

\* ------------------------------------------------------------- the search
\* The sizes main starts a worker for.
Dispatched == {s \in Sizes : s <= numExplanatory}

\* Positions of the results for size s among what main has received.
DeliveriesOf(s) == {i \in 1 .. Len(received) : received[i] = s}

\* The AIC fitModel returns for the j-th combination of size s.
AICOf(s, j) == fitModel(combinations[s][j], regression).aic

\* No combination of size s has an AIC below +Inf.
NoneValid(s) ==
    \A j \in 1 .. Len(combinations[s]) : ~FLess(AICOf(s, j), PosInf)

Sentinel == [Features |-> <<>>, AIC |-> PosInf, MSE |-> Zero]

\* r is the first combination of size s, in generation order, whose AIC no
\* other combination of that size undercuts.
IsFirstMinimum(s, r) ==
    /\ \A j \in 1 .. Len(combinations[s]) : ~FLess(AICOf(s, j), r.AIC)
    /\ \E j \in 1 .. Len(combinations[s]) :
          /\ combinations[s][j] = r.Features
          /\ AICOf(s, j) = r.AIC
          /\ \A h \in 1 .. j - 1 : AICOf(s, h) # r.AIC

\* C2: when the run finishes, main has processed exactly one result for
\* every size in minSize..numExplanatory: as many results as sizes, no size
\* missing, none delivered twice.
C2_OneResultPerSize ==
    mainPc = "exited" =>
        /\ Len(received) = Cardinality(Dispatched)
        /\ \A s \in Dispatched : Cardinality(DeliveriesOf(s)) = 1

C4_AscendingSizes ==
    \A i, j \in 1 .. Len(received) : i < j => received[i] < received[j]

\* C5 as stated: a delivered result has the minimum AIC of its size and is
\* the first combination in generation order with that AIC.
C5_FirstMinimumDelivered ==
    \A i \in 1 .. Len(received) : IsFirstMinimum(received[i], output[i])

\* C5 as amended: that holds whenever some combination of the size has an
\* AIC below +Inf; when none has, the delivered result is the sentinel.
C5_FirstMinimumOrSentinel ==
    \A i \in 1 .. Len(received) :
        IF NoneValid(received[i])
        THEN output[i] = Sentinel
        ELSE IsFirstMinimum(received[i], output[i])

\* A tie for the minimum between the second and the fourth combination.
C5_Witness ==
    /\ numExplanatory = 5
    /\ \E i \in 1 .. Len(received) :
          /\ received[i] = 4
          /\ output[i].Features = <<0, 1, 2, 4>>
          /\ output[i].AIC = AICOf(4, 4)
          /\ FLess(output[i].AIC, AICOf(4, 1))

\* e is the minimum-AIC entry of the per-size results, the smallest size
\* winning ties.
IsOverallBest(e) ==
    \E b \in 1 .. Len(received) :
        /\ output[b] = e
        /\ \A i \in 1 .. Len(received) :
              /\ ~FLess(output[i].AIC, e.AIC)
              /\ output[i].AIC = e.AIC => received[b] <= received[i]

\* C6: the run reports, besides the per-size results, one overall best: the
\* minimum-AIC entry of the per-size results.
C6_OverallBestReported ==
    (mainPc = "exited" /\ received # <<>>) =>
        /\ Len(output) = Len(received) + 1
        /\ IsOverallBest(output[Len(output)])

\* C7: a subset for which the regression's Run reports an error is never
\* the subset a worker reports as its best.
C7_SingularNeverReported ==
    \A i \in 1 .. Len(output) :
        output[i].Features # <<>> =>
            ~fitModel(output[i].Features, regression).err

C9_Terminates ==
    <>(/\ mainPc = "exited"
       /\ joinerPc = "returned"
       /\ \A s \in Dispatched : wpc[s] = "returned" /\ DeliveriesOf(s) # {})

C11_FatalBeforeSpawn ==
    (input # "ok" /\ mainPc # "load") =>
        /\ mainPc = "fatal"
        /\ \A s \in Sizes : wpc[s] = "unborn"
        /\ joinerPc = "unborn"
        /\ output = <<>> /\ received = <<>>

C11_Witness ==
    /\ input = "badFloat" /\ mainPc = "fatal"
    /\ numExplanatory >= minSize
    /\ \A s \in Sizes : wpc[s] = "unborn"

C20_NoSubsetForInvalidArguments ==
    (gpc = "done" /\ (gk <= 0 \/ gn <= 0)) => gout = <<>>

\* ---------------------------------------------------------------- the fit
\* The workers that are about to fit a combination, and that combination.
Fitting == {s \in Dispatched : wpc[s] = "loop"}
Current(s) == combinations[s][next[s]]

\* The design matrix of the specification: one point per dataset row r,
\* pairing y[r] with data[r][f] for each selected feature f.
DesignPoints(features, rows) ==
    [r \in 1 .. rows |->
        [observed |-> YAt(r - 1),
         variables |-> [j \in 1 .. Len(features) |->
                            Cell(r - 1, features[j])]]]

\* C13: fitModel feeds the regression exactly one training point per
\* dataset row r, pairing y[r] with the values data[r][f] of the subset.
C13_OnePointPerRow ==
    \A s \in Fitting :
        ~FitPanics(Current(s), numRows) =>
            Trained(Current(s), numRows) = DesignPoints(Current(s), numRows)

\* C14: the divisor of the squared-error sum, the multiplier of ln(MSE) and
\* the number of summed squared errors are the number of dataset rows, and
\* the AIC penalty is twice the subset size.
C14_SampleCountIsRows ==
    \A s \in Fitting :
        ~FitPanics(Current(s), numRows) =>
            LET fit == fitModel(Current(s), regression)
            IN /\ fit.divisor = numRows
               /\ fit.multiplier = numRows
               /\ fit.terms = numRows
               /\ fit.penalty = 2 * s

\* C15: no fitModel call indexes y or data out of range, so no worker
\* panics and ends the process.
C15_NoIndexOutOfRange ==
    /\ \A s \in Fitting : ~FitPanics(Current(s), numRows)
    /\ \A s \in Dispatched : wpc[s] \notin {"panicking", "dying"}
    /\ ~crashed

\* ------------------------------------------------------------ the channels
\* The workers whose send on done has been received by the joiner.
DoneSent == {s \in Dispatched : wpc[s] \in {"returned", "dying"}}

\* C16: results is closed only after main has received every worker's
\* result: a worker sends done only after its send on results has
\* completed, the joiner closes results only after one done per worker, and
\* no worker is left sending on the closed channel.
C16_ClosedAfterAllReceived ==
    /\ \A s \in DoneSent : DeliveriesOf(s) # {}
    /\ closed => DoneSent = Dispatched
    /\ closed => \A s \in Dispatched : DeliveriesOf(s) # {}
    /\ \A s \in Dispatched : ~(closed /\ wpc[s] = "send")

\* ------------------------------------------------- concurrent generation
\* The subsets call c has put out so far, read from their backing arrays.
PutOut(c) == [j \in 1 .. Len(hout[c]) |-> Contents(hheap[c], hout[c][j])]

\* C17: calls of generateCombinations running side by side each return the
\* sequence of a call on its own, and a subset already put out is never
\* changed by the later appends and truncations on the working slice: at
\* every step what a call has put out is a prefix of that sequence, and all
\* of it once the call has returned.
C17_ReentrantNoAliasing ==
    \A c \in Calls :
        LET alone == generateCombinations(hn, hk[c])
        IN /\ Len(PutOut(c)) <= Len(alone)
           /\ \A j \in 1 .. Len(PutOut(c)) : PutOut(c)[j] = alone[j]
           /\ hstack[c] = <<>> => Len(PutOut(c)) = Len(alone)

\* Both calls under way, each with output, and the first call's working
\* array already overwritten in place after a subset was copied from it.
C17_Witness ==
    /\ hn = 3 /\ hk[1] = 2 /\ hk[2] = 1
    /\ hstack[1] # <<>> /\ hstack[2] # <<>>
    /\ PutOut(1) = <<<<0, 1>>, <<0, 2>>>>
    /\ PutOut(2) = <<<<0>>>>
    /\ \E a \in 1 .. Len(hheap[1]) : hheap[1][a] = <<0, 2>>

\* ------------------------------------------------------- frame and privacy
\* The running best of worker s.
BestOf(s) == <<localBestAIC[s], localBestFeatures[s], localBestMSE[s]>>

\* The step is one of worker s's own statements.
StepOf(s) ==
    /\ wpc'[s] # wpc[s] \/ next'[s] # next[s]
    /\ \A t \in Sizes \ {s} : wpc'[t] = wpc[t] /\ next'[t] = next[t]

\* C18: no step changes the dataset; the running best of a worker changes
\* only in a step of that worker, to its initial value or to the outcome of
\* fitting its own current combination; and what main has received changes
\* only by the send of a worker, which adds that worker's own running best.
C18_DatasetFixedBestPrivate ==
    [][/\ UNCHANGED <<numRows, numExplanatory, regression>>
       /\ \A s \in Sizes :
            BestOf(s)' # BestOf(s) =>
                /\ StepOf(s)
                /\ \/ wpc[s] = "start"
                      /\ BestOf(s)' = <<InitialBestAIC, <<>>, Zero>>
                   \/ wpc[s] = "loop"
                      /\ BestOf(s)' =
                           <<fitModel(Current(s), regression).aic, Current(s),
                             fitModel(Current(s), regression).mse>>
       /\ output' # output =>
            \E s \in Sizes :
                /\ StepOf(s) /\ wpc[s] = "send"
                /\ output' = Append(output,
                                    [Features |-> localBestFeatures[s],
                                     AIC |-> localBestAIC[s],
                                     MSE |-> localBestMSE[s]])
                /\ BestOf(s)' = BestOf(s)]_vars

\* Both workers hold a running best of their own, the larger one has sent
\* its result and main holds nothing else.
C18_Witness ==
    /\ numExplanatory = 5
    /\ wpc[4] = "send" /\ wpc[5] = "defer"
    /\ localBestFeatures[4] # <<>>
    /\ localBestAIC[4] # localBestAIC[5]
    /\ output = <<[Features |-> localBestFeatures[5],
                   AIC |-> localBestAIC[5], MSE |-> localBestMSE[5]]>>

\* ------------------------------------------------------------ a perfect fit
\* The j-th combination of worker s has been fitted with an MSE of 0.
FittedZero(s, j) ==
    /\ j < next[s]
    /\ fitModel(combinations[s][j], regression).mse = Zero

\* The first combination of worker s fitted with an MSE of 0.
IsFirstZero(s, j) ==
    /\ FittedZero(s, j)
    /\ \A h \in 1 .. (j - 1) : ~FittedZero(s, h)

\* C19: a fit with MSE 0 has AIC -Inf, and from then on the worker's
\* running best, and the result it sends, is the first of its subsets
\* fitted with MSE 0.
C19_ZeroMSEWinsFirst ==
    \A s \in Sizes : \A j \in 1 .. Len(combinations[s]) :
        /\ FittedZero(s, j) =>
              fitModel(combinations[s][j], regression).aic = NegInf
        /\ IsFirstZero(s, j) =>
              /\ BestOf(s) = <<NegInf, combinations[s][j], Zero>>
              /\ \A p \in DeliveriesOf(s) :
                    output[p] = [Features |-> combinations[s][j],
                                 AIC |-> NegInf, MSE |-> Zero]

\* The second subset of size 4 is the first to fit with MSE 0, the fourth
\* fits with MSE 0 too, and main has received the second.
C19_Witness ==
    /\ numExplanatory = 5
    /\ regression[0].sq = Exp(0) /\ regression[1].sq = Zero
    /\ next[4] = 6
    /\ \E p \in DeliveriesOf(4) :
          output[p] = [Features |-> <<0, 1, 2, 4>>, AIC |-> NegInf,
                       MSE |-> Zero]

====
